---- MODULE Spec2Model ----
(***************************************************************************)
(* Model of packages/react-scripts/config/jest/typescriptTransform.js:     *)
(* the module-level load of tsconfig.json into compilerConfig, and the two *)
(* exported entry points process and getCacheKey.                          *)
(*                                                                         *)
(* JavaScript strings are sequences of one-character strings; the NUL      *)
(* character is written NUL.  JavaScript values are records                *)
(*   [t |-> type tag, lit |-> literal text, props |-> own properties]      *)
(* where props is the insertion-ordered sequence of [k |-> key, v |-> val].*)
(***************************************************************************)
EXTENDS Integers, Sequences, FiniteSets, TLC

VARIABLES
    pc,             \* "start" before the guarded load, then "idle" / "called"
    tsconfigFile,   \* what the file system holds at tsconfigPath
    compilerConfig, \* the module-level binding of the same name
    loadThrew,      \* whether an error escaped the module's own statements
    configAtLoad,   \* history: compilerConfig as the load left it
    instrumented,   \* history: an instrumented compilation has run
    last            \* the call in progress: its arguments and what it handed back

vars == <<pc, tsconfigFile, compilerConfig, loadThrew, configAtLoad, instrumented, last>>

(*************************** bounds of the model ***************************)
\* longest source text (src / fileData) the caller passes
MaxSrcLen == 1
\* longest stem put before the extension of a file path
MaxStemLen == 1
\* longest runtime-configuration string (config / configStr)
MaxCfgLen == 1

(******************************* strings ***********************************)
NUL == "\\0"

RECURSIVE StringsOver(_, _)
StringsOver(alphabet, n) ==
    IF n = 0 THEN {<<>>}
    ELSE LET shorter == StringsOver(alphabet, n - 1)
         IN  shorter \cup {Append(s, c) : s \in shorter, c \in alphabet}

\* String.prototype.endsWith
endsWith(s, suffix) ==
    /\ Len(suffix) <= Len(s)
    /\ SubSeq(s, Len(s) - Len(suffix) + 1, Len(s)) = suffix

\* the UTF-8 encoding hash.update applies to a string argument
Utf8Byte(c) ==
    CASE c = NUL -> 0
      [] c = "\"" -> 34  [] c = "," -> 44  [] c = "." -> 46
      [] c = "0" -> 48   [] c = "1" -> 49  [] c = "2" -> 50
      [] c = "5" -> 53   [] c = "6" -> 54  [] c = ":" -> 58
      [] c = "M" -> 77   [] c = "S" -> 83  [] c = "[" -> 91
      [] c = "\\" -> 92  [] c = "]" -> 93
      [] c = "a" -> 97   [] c = "c" -> 99  [] c = "d" -> 100
      [] c = "e" -> 101  [] c = "f" -> 102 [] c = "i" -> 105
      [] c = "j" -> 106  [] c = "l" -> 108 [] c = "m" -> 109
      [] c = "n" -> 110  [] c = "o" -> 111 [] c = "p" -> 112
      [] c = "r" -> 114  [] c = "s" -> 115 [] c = "t" -> 116
      [] c = "u" -> 117  [] c = "x" -> 120 [] c = "{" -> 123
      [] c = "}" -> 125

Utf8(s) == [i \in 1..Len(s) |-> Utf8Byte(s[i])]

(***************************** JavaScript values ***************************)
Undefined == [t |-> "undefined", lit |-> <<>>, props |-> <<>>]
Null      == [t |-> "null", lit |-> <<"n", "u", "l", "l">>, props |-> <<>>]
True      == [t |-> "boolean", lit |-> <<"t", "r", "u", "e">>, props |-> <<>>]
False     == [t |-> "boolean", lit |-> <<"f", "a", "l", "s", "e">>, props |-> <<>>]
Num(digits) == [t |-> "number", lit |-> digits, props |-> <<>>]
Str(chars)  == [t |-> "string", lit |-> chars, props |-> <<>>]
Obj(props)  == [t |-> "object", lit |-> <<>>, props |-> props]
Arr(items)  ==
    [t |-> "array", lit |-> <<>>,
     props |-> [i \in 1..Len(items) |->
                  [k |-> <<IF i = 1 THEN "0" ELSE IF i = 2 THEN "1" ELSE "2">>,
                   v |-> items[i]]]]

\* ToBoolean, as applied by &&, if and ?:
Truthy(v) ==
    CASE v.t = "undefined" -> FALSE
      [] v.t = "null"      -> FALSE
      [] v.t = "boolean"   -> v = True
      [] v.t = "number"    -> v.lit # <<"0">>
      [] v.t = "string"    -> v.lit # <<>>
      [] OTHER             -> TRUE

HasKey(props, k) == \E i \in 1..Len(props) : props[i].k = k

PropOf(props, k) == props[CHOOSE i \in 1..Len(props) : props[i].k = k].v

\* v.k for a value v that is neither null nor undefined
GetProp(v, k) ==
    IF v.t \in {"object", "array"} /\ HasKey(v.props, k)
    THEN PropOf(v.props, k)
    ELSE Undefined

\* delete o.k on an own-property list
DeleteProp(props, k) ==
    LET keep == {i \in 1..Len(props) : props[i].k # k}
        nth(n) == CHOOSE i \in keep : Cardinality({j \in keep : j < i}) = n - 1
    IN  [n \in 1..Cardinality(keep) |-> props[nth(n)]]

\* o.k = v on an own-property list: in place when present, appended when not
SetProp(props, k, v) ==
    IF HasKey(props, k)
    THEN [i \in 1..Len(props) |-> IF props[i].k = k THEN [k |-> k, v |-> v] ELSE props[i]]
    ELSE Append(props, [k |-> k, v |-> v])

\* the own enumerable properties Object.assign copies from a source value
OwnEnumerable(v) ==
    CASE v.t \in {"object", "array"} -> v.props
      [] v.t = "string" ->
           [i \in 1..Len(v.lit) |->
              [k |-> <<IF i = 1 THEN "0" ELSE IF i = 2 THEN "1" ELSE "2">>,
               v |-> Str(<<v.lit[i]>>)]]
      [] OTHER -> <<>>

\* Object.assign({}, v)
ObjectAssign(v) == Obj(OwnEnumerable(v))

(****************************** JSON.stringify ****************************)
\* the escaping JSON.stringify applies to the characters of a string
JsonEscape(c) ==
    CASE c = NUL  -> <<"\\", "u", "0", "0", "0", "0">>
      [] c = "\"" -> <<"\\", "\"">>
      [] c = "\\" -> <<"\\", "\\">>
      [] OTHER    -> <<c>>

RECURSIVE JsonQuoteBody(_)
JsonQuoteBody(chars) ==
    IF chars = <<>> THEN <<>>
    ELSE JsonEscape(Head(chars)) \o JsonQuoteBody(Tail(chars))

JsonQuote(chars) == <<"\"">> \o JsonQuoteBody(chars) \o <<"\"">>

RECURSIVE stringify(_), StringifyMembers(_, _)
\* JSON.stringify(v) for a value other than undefined
stringify(v) ==
    CASE v.t = "string" -> JsonQuote(v.lit)
      [] v.t = "array"  -> <<"[">> \o StringifyMembers(v.props, FALSE) \o <<"]">>
      [] v.t = "object" -> <<"{">> \o StringifyMembers(v.props, TRUE) \o <<"}">>
      [] OTHER          -> v.lit

StringifyMembers(props, withKeys) ==
    IF props = <<>> THEN <<>>
    ELSE (IF withKeys THEN JsonQuote(Head(props).k) \o <<":">> ELSE <<>>)
         \o stringify(Head(props).v)
         \o (IF Len(props) > 1 THEN <<",">> ELSE <<>>)
         \o StringifyMembers(Tail(props), withKeys)

(************************* option names and values *************************)
K_module          == <<"m", "o", "d", "u", "l", "e">>
K_jsx             == <<"j", "s", "x">>
K_sourceMap       == <<"s", "o", "u", "r", "c", "e", "M", "a", "p">>
K_inlineSourceMap == <<"i", "n", "l", "i", "n", "e">> \o <<"S", "o", "u", "r", "c", "e", "M", "a", "p">>
K_inlineSources   == <<"i", "n", "l", "i", "n", "e">> \o <<"S", "o", "u", "r", "c", "e", "s">>
K_compilerOptions == <<"c", "o", "m", "p", "i", "l", "e", "r">> \o <<"O", "p", "t", "i", "o", "n", "s">>
K_include         == <<"i", "n", "c", "l", "u", "d", "e">>
K_instrument      == <<"i", "n", "s", "t", "r", "u", "m", "e", "n", "t">>

\* tsc.ModuleKind.CommonJS and tsc.JsxEmit.React
ModuleKind_CommonJS == Num(<<"1">>)
JsxEmit_React       == Num(<<"2">>)

(********************* the project configuration file **********************)
Entry(k, v) == <<[k |-> k, v |-> v]>>

\* compilerOptions objects a tsconfig.json may hold
ObjectOptions ==
    { Obj(m \o sm) :
        m  \in {<<>>, Entry(K_module, Str(<<"e", "s", "6">>))},
        sm \in {<<>>, Entry(K_sourceMap, True), Entry(K_sourceMap, False)} }
    \cup { Obj(Entry(K_inlineSourceMap, False) \o Entry(K_sourceMap, True)),
           Obj(Entry(K_module, Str(<<NUL>>))) }

\* values a tsconfig.json may hold under compilerOptions that are not objects
NonObjectOptions ==
    { Null, False, Str(<<>>),
      True, Num(<<"5">>), Str(<<"x">>), Arr(<<Str(<<"x">>)>>) }

\* what require(tsconfigPath) evaluates to when the file parses
TsconfigValues ==
    { Null, Str(<<"x">>), Obj(<<>>), Obj(Entry(K_include, Arr(<<>>))) }
    \cup { Obj(Entry(K_compilerOptions, co)) : co \in ObjectOptions \cup NonObjectOptions }

TsconfigFiles ==
    { [exists |-> FALSE, loads |-> FALSE, json |-> Undefined],
      [exists |-> TRUE,  loads |-> FALSE, json |-> Undefined] }
    \cup { [exists |-> TRUE, loads |-> TRUE, json |-> v] : v \in TsconfigValues }

(************************** module initialisation **************************)
DefaultConfig ==
    Obj(Entry(K_module, ModuleKind_CommonJS) \o Entry(K_jsx, JsxEmit_React))

\* require(tsconfigPath): throws when the file cannot be read or parsed
Require(file) ==
    IF file.loads THEN [threw |-> FALSE, value |-> file.json]
    ELSE [threw |-> TRUE, value |-> Undefined]

\* a load whose try block has no catch: the error of require escapes
ModuleInitNoCatch(file) ==
    IF ~file.exists THEN [threw |-> FALSE, compilerConfig |-> DefaultConfig]
    ELSE LET r == Require(file)
         IN  IF r.threw THEN [threw |-> TRUE, compilerConfig |-> DefaultConfig]
             ELSE IF Truthy(r.value) /\ Truthy(GetProp(r.value, K_compilerOptions))
             THEN [threw |-> FALSE, compilerConfig |-> GetProp(r.value, K_compilerOptions)]
             ELSE [threw |-> FALSE, compilerConfig |-> DefaultConfig]

\* the module-level statements: the default, then the guarded load
ModuleInit(file) ==
    IF ~file.exists THEN [threw |-> FALSE, compilerConfig |-> DefaultConfig]
    ELSE LET r == Require(file)
         IN  IF r.threw THEN [threw |-> FALSE, compilerConfig |-> DefaultConfig]
             ELSE IF Truthy(r.value) /\ Truthy(GetProp(r.value, K_compilerOptions))
             THEN [threw |-> FALSE, compilerConfig |-> GetProp(r.value, K_compilerOptions)]
             ELSE [threw |-> FALSE, compilerConfig |-> DefaultConfig]

(********************************* process ********************************)
DotTs  == <<".", "t", "s">>
DotTsx == <<".", "t", "s", "x">>

\* a test that forgets the '.tsx' alternative
IsTypeScriptPathTsOnly(path) == endsWith(path, DotTs)

\* path.endsWith('.ts') || path.endsWith('.tsx')
IsTypeScriptPath(path) == endsWith(path, DotTs) \/ endsWith(path, DotTsx)

\* the writes of the instrument branch, applied to an own-property list
InlineSourceMaps(props) ==
    SetProp(SetProp(DeleteProp(props, K_sourceMap), K_inlineSourceMap, True),
            K_inlineSources, True)

\* an instrument branch that writes through the shared object instead of a copy
InstrumentBranchNoCopy(config) ==
    LET written == IF config.t \in {"object", "array"}
                   THEN [config EXCEPT !.props = InlineSourceMaps(config.props)]
                   ELSE config
    IN  [global |-> written, compilerOptions |-> written]

\* an instrument branch whose delete names the module-level object
InstrumentBranchDeletesGlobal(config) ==
    [global |-> IF config.t \in {"object", "array"}
                THEN [config EXCEPT !.props = DeleteProp(config.props, K_sourceMap)]
                ELSE config,
     compilerOptions |-> Obj(InlineSourceMaps(ObjectAssign(config).props))]

\* an instrument branch that forgets to delete sourceMap
InstrumentBranchKeepsSourceMap(config) ==
    [global |-> config,
     compilerOptions |->
        Obj(SetProp(SetProp(OwnEnumerable(config), K_inlineSourceMap, True),
                    K_inlineSources, True))]

\* the instrument branch: the module-level object it leaves behind (global) and
\* the object the local compilerOptions names afterwards
InstrumentBranch(config) ==
    [global |-> config,
     compilerOptions |-> Obj(InlineSourceMaps(ObjectAssign(config).props))]

\* let compilerOptions = compilerConfig; if (options.instrument) { ... }
EffectiveOptions(config, options) ==
    IF Truthy(GetProp(options, K_instrument))
    THEN InstrumentBranch(config)
    ELSE [global |-> config, compilerOptions |-> config]

\* an invocation of tsc.transpileModule(input, {compilerOptions, fileName})
NoCall == [input |-> <<>>, compilerOptions |-> Undefined, fileName |-> <<>>]

TranspileCall(src, compilerOptions, path) ==
    [input |-> src, compilerOptions |-> compilerOptions, fileName |-> path]

\* values the two entry points hand back
NoResult         == [kind |-> "none", text |-> <<>>, of |-> NoCall, fed |-> <<>>]
SourceText(src)  == [kind |-> "text", text |-> src, of |-> NoCall, fed |-> <<>>]
\* tsTranspiled.outputText: whatever the compiler emits for the call
OutputText(call) == [kind |-> "outputText", text |-> <<>>, of |-> call, fed |-> <<>>]

\* process(src, path, config, options) run on module state compilerConfig = cfg,
\* up to the point where the compiler returns or throws
process(cfg, src, path, config, options) ==
    IF IsTypeScriptPath(path)
    THEN LET eff == EffectiveOptions(cfg, options)
             call == TranspileCall(src, eff.compilerOptions, path)
         IN  [global |-> eff.global, invoked |-> TRUE, call |-> call,
              result |-> OutputText(call)]
    ELSE [global |-> cfg, invoked |-> FALSE, call |-> NoCall,
          result |-> SourceText(src)]

(******************************* getCacheKey ******************************)
\* fs.readFileSync(__filename): the bytes of the transform's own file
THIS_FILE == <<47, 47, 32, 67>>

\* crypto.createHash('md5'), hash.update(data) and hash.digest('hex'): the
\* state of a hash is the bytes fed so far, and the digest is one-to-one on them
createHash == <<>>
update(hash, bytes) == hash \o bytes
digest(hash) == [kind |-> "md5hex", text |-> <<>>, of |-> NoCall, fed |-> hash]

InstrumentMarker(options) ==
    IF Truthy(GetProp(options, K_instrument)) THEN K_instrument ELSE <<>>

\* a chain of updates that leaves out filePath and its separator
HashUpdatesWithoutPath(json, fileData, filePath, configStr, options) ==
    << THIS_FILE, Utf8(<<NUL>>), Utf8(fileData), Utf8(<<NUL>>),
       Utf8(configStr), Utf8(<<NUL>>),
       Utf8(json), Utf8(<<NUL>>), Utf8(InstrumentMarker(options)) >>

\* a chain of updates that feeds filePath before fileData
HashUpdatesPathFirst(json, fileData, filePath, configStr, options) ==
    << THIS_FILE, Utf8(<<NUL>>), Utf8(filePath), Utf8(<<NUL>>),
       Utf8(fileData), Utf8(<<NUL>>), Utf8(configStr), Utf8(<<NUL>>),
       Utf8(json), Utf8(<<NUL>>), Utf8(InstrumentMarker(options)) >>

\* the arguments of the eleven .update calls, in order; json is the text
\* JSON.stringify(compilerConfig) evaluates to
HashUpdates(json, fileData, filePath, configStr, options) ==
    << THIS_FILE, Utf8(<<NUL>>), Utf8(fileData), Utf8(<<NUL>>),
       Utf8(filePath), Utf8(<<NUL>>), Utf8(configStr), Utf8(<<NUL>>),
       Utf8(json), Utf8(<<NUL>>), Utf8(InstrumentMarker(options)) >>

RECURSIVE UpdateAll(_, _)
UpdateAll(hash, updates) ==
    IF updates = <<>> THEN hash
    ELSE UpdateAll(update(hash, Head(updates)), Tail(updates))

\* getCacheKey(fileData, filePath, configStr, options) on module state cfg
getCacheKey(cfg, fileData, filePath, configStr, options) ==
    digest(UpdateAll(createHash,
                     HashUpdates(stringify(cfg), fileData, filePath, configStr, options)))

(***************************** the callers' inputs *************************)
SrcTexts    == StringsOver({NUL, "a"}, MaxSrcLen)
Extensions  == {DotTs, DotTsx, <<".", "j", "s">>, <<"t", "s">>, <<>>}
FilePaths   == {stem \o ext : stem \in StringsOver({NUL}, MaxStemLen), ext \in Extensions}
ConfigStrs  == StringsOver({NUL}, MaxCfgLen)
\* process receives the runner's configuration as its third argument and
\* never reads it
JestConfigs == {<<>>, <<"c">>}
OptionsSet  == {Obj(Entry(K_instrument, True)), Obj(Entry(K_instrument, False)), Obj(<<>>)}

(****************************** state machine ******************************)
Idle ==
    [op |-> "none", fileData |-> <<>>, filePath |-> <<>>, configStr |-> <<>>,
     options |-> Undefined, before |-> Undefined, invoked |-> FALSE,
     call |-> NoCall, outcome |-> "none", result |-> NoResult]

\* the module has run its first lines: compilerConfig holds the default
Init ==
    /\ pc = "start"
    /\ tsconfigFile \in TsconfigFiles
    /\ compilerConfig = DefaultConfig
    /\ loadThrew = FALSE
    /\ configAtLoad = Undefined
    /\ instrumented = FALSE
    /\ last = Idle

\* if (fs.existsSync(tsconfigPath)) { try { ... } catch (e) { } }
Load ==
    /\ pc = "start"
    /\ LET r == ModuleInit(tsconfigFile)
       IN  /\ compilerConfig' = r.compilerConfig
           /\ configAtLoad' = r.compilerConfig
           /\ loadThrew' = r.threw
           /\ pc' = IF r.threw THEN "failed" ELSE "idle"
    /\ UNCHANGED <<tsconfigFile, instrumented, last>>

\* a call of process; the compiler, not part of this module, returns or throws
Process ==
    /\ pc = "idle"
    /\ \E src \in SrcTexts, path \in FilePaths, config \in JestConfigs,
          options \in OptionsSet, compilerThrows \in BOOLEAN :
          LET r == process(compilerConfig, src, path, config, options)
              thrown == r.invoked /\ compilerThrows
          IN  /\ (compilerThrows => r.invoked)
              /\ compilerConfig' = r.global
              /\ instrumented' =
                    (instrumented \/ (r.invoked /\ Truthy(GetProp(options, K_instrument))))
              /\ last' = [op |-> "process", fileData |-> src, filePath |-> path,
                          configStr |-> config, options |-> options,
                          before |-> compilerConfig, invoked |-> r.invoked,
                          call |-> r.call,
                          outcome |-> IF thrown THEN "throw" ELSE "return",
                          result |-> IF thrown THEN NoResult ELSE r.result]
    /\ pc' = "called"
    /\ UNCHANGED <<tsconfigFile, loadThrew, configAtLoad>>

\* a call of getCacheKey
GetCacheKey ==
    /\ pc = "idle"
    /\ \E fileData \in SrcTexts, filePath \in FilePaths, configStr \in ConfigStrs,
          options \in OptionsSet :
          last' = [op |-> "getCacheKey", fileData |-> fileData, filePath |-> filePath,
                   configStr |-> configStr, options |-> options,
                   before |-> compilerConfig, invoked |-> FALSE, call |-> NoCall,
                   outcome |-> "return",
                   result |-> getCacheKey(compilerConfig, fileData, filePath,
                                          configStr, options)]
    /\ pc' = "called"
    /\ UNCHANGED <<tsconfigFile, compilerConfig, loadThrew, configAtLoad, instrumented>>

\* control is back with the test runner, which may call again
Return ==
    /\ pc = "called"
    /\ pc' = "idle"
    /\ last' = Idle
    /\ UNCHANGED <<tsconfigFile, compilerConfig, loadThrew, configAtLoad, instrumented>>

Next == Load \/ Process \/ GetCacheKey \/ Return

Spec == Init /\ [][Next]_vars

(***************************************************************************)
(* Properties                                                              *)
(***************************************************************************)
Requested(options) == Truthy(GetProp(options, K_instrument))

EndsInTsOrTsx(path) ==
    \/ Len(path) >= 3 /\ SubSeq(path, Len(path) - 2, Len(path)) = <<".", "t", "s">>
    \/ Len(path) >= 4 /\ SubSeq(path, Len(path) - 3, Len(path)) = <<".", "t", "s", "x">>

\* C1: process hands back src itself, without invoking the compiler, for every
\* path that ends in neither '.ts' nor '.tsx' (whatever src, config and options
\* are); for a path that ends in '.ts' or '.tsx' it invokes the compiler on
\* (src, fileName = path) and what it returns is that invocation's outputText.
C1_PassThroughOrTranspile ==
    last.op = "process" =>
        IF EndsInTsOrTsx(last.filePath)
        THEN /\ last.invoked
             /\ last.call.input = last.fileData
             /\ last.call.fileName = last.filePath
             /\ last.call.compilerOptions
                   = EffectiveOptions(last.before, last.options).compilerOptions
             /\ last.outcome = "return" =>
                   /\ last.result.kind = "outputText"
                   /\ last.result.of = last.call
        ELSE /\ ~last.invoked
             /\ last.call = NoCall
             /\ last.outcome = "return"
             /\ last.result.kind = "text"
             /\ last.result.text = last.fileData

\* C1 witness: a pass-through of a non-empty source under a '.js' path with
\* instrument = true.
C1_Witness ==
    /\ last.op = "process"
    /\ last.filePath = <<".", "j", "s">>
    /\ last.fileData = <<"a">>
    /\ Requested(last.options)
    /\ last.result.text = <<"a">>
    /\ ~last.invoked

\* C2: every getCacheKey call returns what the same call returns right after
\* the load, so two calls with identical arguments agree wherever they stand in
\* a sequence of calls; and getCacheKey leaves the module state as it found it.
C2_KeyDeterministic ==
    last.op = "getCacheKey" =>
        /\ last.result = getCacheKey(configAtLoad, last.fileData, last.filePath,
                                     last.configStr, last.options)
        /\ compilerConfig = last.before

\* C2 witness: a getCacheKey call made after an instrumented compilation.
C2_Witness ==
    /\ last.op = "getCacheKey"
    /\ instrumented
    /\ last.result.kind = "md5hex"

\* C3: changing exactly one of fileData, filePath, configStr or the instrument
\* request, the rest and the module state held fixed, changes the key.
C3_KeySensitive ==
    last.op = "getCacheKey" =>
        LET json == stringify(compilerConfig)
            key(fd, fp, cs, o) ==
                digest(UpdateAll(createHash, HashUpdates(json, fd, fp, cs, o)))
        IN  /\ key(last.fileData, last.filePath, last.configStr, last.options)
                  = last.result
            /\ \A fd \in SrcTexts \ {last.fileData} :
                  key(fd, last.filePath, last.configStr, last.options) # last.result
            /\ \A fp \in FilePaths \ {last.filePath} :
                  key(last.fileData, fp, last.configStr, last.options) # last.result
            /\ \A cs \in ConfigStrs \ {last.configStr} :
                  key(last.fileData, last.filePath, cs, last.options) # last.result
            /\ \A o \in OptionsSet :
                  Requested(o) # Requested(last.options) =>
                     key(last.fileData, last.filePath, last.configStr, o) # last.result

\* C3 witness: a key computed for fields that hold the separator character.
C3_Witness ==
    /\ last.op = "getCacheKey"
    /\ last.fileData = <<NUL>>
    /\ last.filePath = <<NUL, ".", "t", "s">>
    /\ last.configStr = <<NUL>>
    /\ Len(last.result.fed) > 0

\* C4: on a '.ts'/'.tsx' path the compiler gets, when options.instrument is
\* true, an object without sourceMap, with inlineSourceMap = true and
\* inlineSources = true, and with every other option as compilerConfig has it;
\* otherwise it gets compilerConfig itself, nothing added, removed or changed.
C4_EffectiveOptions ==
    (last.op = "process" /\ last.invoked) =>
        LET given == last.call.compilerOptions
            own   == OwnEnumerable(last.before)
            keys  == {given.props[i].k : i \in 1..Len(given.props)}
                     \cup {own[i].k : i \in 1..Len(own)}
        IN  IF Requested(last.options)
            THEN /\ given.t = "object"
                 /\ ~HasKey(given.props, K_sourceMap)
                 /\ GetProp(given, K_inlineSourceMap) = True
                 /\ GetProp(given, K_inlineSources) = True
                 /\ \A k \in keys \ {K_sourceMap, K_inlineSourceMap, K_inlineSources} :
                       /\ HasKey(given.props, k)
                       /\ HasKey(own, k)
                       /\ PropOf(given.props, k) = PropOf(own, k)
            ELSE given = last.before

\* C4 witness: an instrumented compilation under a configuration that sets
\* sourceMap and module.
C4_Witness ==
    /\ last.op = "process"
    /\ last.invoked
    /\ Requested(last.options)
    /\ HasKey(last.before.props, K_sourceMap)
    /\ HasKey(last.before.props, K_module)
    /\ HasKey(last.call.compilerOptions.props, K_module)

\* C5: the load lets no error out, and with the file missing, unreadable or
\* unparsable, or lacking a compilerOptions key, compilerConfig is the built-in
\* default { module: CommonJS, jsx: React }.
C5_LoadFallsBack ==
    pc # "start" =>
        /\ ~loadThrew
        /\ pc # "failed"
        /\ ( \/ ~tsconfigFile.exists
             \/ ~tsconfigFile.loads
             \/ ~(tsconfigFile.json.t = "object"
                  /\ HasKey(tsconfigFile.json.props, K_compilerOptions)) )
           => compilerConfig =
                 Obj(<<[k |-> K_module, v |-> Num(<<"1">>)],
                       [k |-> K_jsx, v |-> Num(<<"2">>)]>>)

\* C5 witness: the module is loaded and usable although its configuration file
\* exists and could not be read or parsed.
C5_Witness ==
    /\ pc = "idle"
    /\ tsconfigFile.exists
    /\ ~tsconfigFile.loads
    /\ compilerConfig = DefaultConfig

\* C7: once the load is over no step writes compilerConfig, so it keeps,
\* option for option, the value the load gave it.
C7_ReadOnlyAfterLoad ==
    /\ [](pc # "start" => compilerConfig = configAtLoad)
    /\ [][pc # "start" => compilerConfig' = compilerConfig]_vars

\* C7 witness: an instrumented compilation has just run under a configuration
\* that sets sourceMap, and compilerConfig still holds sourceMap.
C7_Witness ==
    /\ last.op = "process"
    /\ last.invoked
    /\ Requested(last.options)
    /\ HasKey(last.before.props, K_sourceMap)
    /\ compilerConfig = last.before
    /\ ~HasKey(compilerConfig.props, K_inlineSources)

\* C8: the key is the hex digest of: the transform's own bytes, NUL, fileData,
\* NUL, filePath, NUL, configStr, NUL, JSON.stringify of the configuration the
\* load left, NUL, then 'instrument' or nothing.
C8_KeyLayout ==
    last.op = "getCacheKey" =>
        /\ last.result.kind = "md5hex"
        /\ last.result.fed =
              THIS_FILE \o <<0>> \o Utf8(last.fileData) \o <<0>>
              \o Utf8(last.filePath) \o <<0>> \o Utf8(last.configStr) \o <<0>>
              \o Utf8(stringify(configAtLoad)) \o <<0>>
              \o (IF Requested(last.options)
                  THEN <<105, 110, 115, 116, 114, 117, 109, 101, 110, 116>>
                  ELSE <<>>)

\* C8 witness: a key for distinct non-empty fileData and filePath with
\* instrument = true.
C8_Witness ==
    /\ last.op = "getCacheKey"
    /\ last.fileData = <<"a">>
    /\ last.filePath = <<".", "t", "s", "x">>
    /\ last.configStr = <<NUL>>
    /\ Requested(last.options)

\* C9 (as claimed): after the load compilerConfig is a mapping of option names
\* to values: the built-in default or the file's compilerOptions object.
C9_ConfigIsMapping ==
    pc # "start" =>
        /\ compilerConfig.t = "object"
        /\ \/ compilerConfig = DefaultConfig
           \/ compilerConfig = GetProp(tsconfigFile.json, K_compilerOptions)

\* what process hands back for a request when the compiler returns
ProcessReturn(fileData, filePath, options) ==
    process(compilerConfig, fileData, filePath, <<>>, options).result

\* C10 (as claimed): two requests whose getCacheKey calls feed the digest the
\* same bytes get the same output from process.
C10_CacheSound ==
    last.op = "getCacheKey" =>
        \A fd \in SrcTexts, fp \in FilePaths, cs \in ConfigStrs, o \in OptionsSet :
            getCacheKey(compilerConfig, fd, fp, cs, o).fed = last.result.fed
            => ProcessReturn(fd, fp, o)
                  = ProcessReturn(last.fileData, last.filePath, last.options)

====
